---- MODULE Spec2Model ----
(***************************************************************************)
(* A model of the snake game in src/src/main.rs (Bevy ECS).                *)
(*                                                                         *)
(* One frame of the Main schedule runs the stages First, PreUpdate and     *)
(* Update in this order.  The systems of one stage are not ordered among   *)
(* themselves (main.rs:161-163 gives no .chain()), so inside a stage the   *)
(* model lets them run in any order.  Commands (spawn / despawn) issued    *)
(* by a system are deferred: they are applied when the stage ends.         *)
(* Rendering (translate_sprites, log, Spr) changes no game state and is    *)
(* left out.                                                               *)
(***************************************************************************)
EXTENDS Integers, Sequences, FiniteSets, Bags

(* ------------------------------ bounds --------------------------------- *)
\* The program plays on a 12 x 12 grid (main.rs:5-6); the model is checked
\* on smaller grids of the same shape (wrapping in both directions): a small
\* one, and a wide one whose sides are both at least 4.
SmallWidth == 3
SmallHeight == 2
WideWidth == 4
WideHeight == 4
\* While keys are pressed the food timer is only let to elapse while
\* lenght + live foods < MaxLen, which keeps the snake's length (an
\* unbounded u64 in the code) <= MaxLen, and while fewer than MaxFoods foods
\* are live.
MaxLen == 3
MaxFoods == 1

(* ------------------------- program constants --------------------------- *)
FOOD_MAX_COUNT == 4
SPAWN_ATTEMPTS == 5

VARIABLES
    head,          \* Pos of the Snake entity
    dir,           \* Snake.dir
    next_dir,      \* Snake.next_dir
    lenght,        \* Snake.lenght (spelled as in the source)
    segments,      \* the Body entities, in spawn order: [pos, move_countdown]
    foods,         \* the Food entities: a bag of Pos
    tickFinished,  \* TickTimer.0.just_finished()
    foodFinished,  \* FoodTimer.0.just_finished()
    commands,      \* deferred Commands of the running stage, in issue order
    stage,         \* the schedule that is running: First, PreUpdate, Update
    ran,           \* the systems of this stage that have run in this frame
    intent,        \* history: the direction the keys selected in the input
                   \* system that has just run; "None" again once the next
                   \* system has run
    panicked,      \* lenght - 1 was evaluated with lenght = 0 (a panic in a
                   \* debug build, 2^64 - 1 in a release build); the model
                   \* stops there
    hist,          \* history: the head's cells at the end of the previous
                   \* ticks, newest first, kept as long as the snake is long
    foodTimerTicked, \* history: spawn_food has ticked the food timer in
                   \* this frame
    mode           \* the kind of run that is explored, fixed from the
                   \* start: "play", "idle" or "wide" (see Init, InitIdle,
                   \* InitWide)

vars == <<head, dir, next_dir, lenght, segments, foods, tickFinished,
          foodFinished, commands, stage, ran, intent, panicked, hist,
          foodTimerTicked, mode>>

\* const GAME_WIDTH, GAME_HEIGHT: the sides of the grid of this run.
GAME_WIDTH == IF mode = "wide" THEN WideWidth ELSE SmallWidth
GAME_HEIGHT == IF mode = "wide" THEN WideHeight ELSE SmallHeight

Dir == {"Right", "Up", "Left", "Down"}

SmallCells == [x : 0..(SmallWidth - 1), y : 0..(SmallHeight - 1)]
WideCells == [x : 0..(WideWidth - 1), y : 0..(WideHeight - 1)]

\* The cells of the grid of this run: what Pos::random draws from.
Cells == IF mode = "wide" THEN WideCells ELSE SmallCells

(* ------------------------------ helpers -------------------------------- *)
Rev(d) ==
    CASE d = "Right" -> "Left"
      [] d = "Up"    -> "Down"
      [] d = "Left"  -> "Right"
      [] d = "Down"  -> "Up"

\* MoveDir with the upper wrap tests off by one (> GAME_WIDTH for
\* > GAME_WIDTH - 1): what C9_Wrap must tell from MoveDir.
MoveDirOffByOne(p, d) ==
    LET p0 == CASE d = "Right" -> [p EXCEPT !.x = @ + 1]
                [] d = "Up"    -> [p EXCEPT !.y = @ - 1]
                [] d = "Left"  -> [p EXCEPT !.x = @ - 1]
                [] d = "Down"  -> [p EXCEPT !.y = @ + 1]
        p1 == IF p0.x < 0 THEN [p0 EXCEPT !.x = GAME_WIDTH - 1] ELSE p0
        p2 == IF p1.x > GAME_WIDTH THEN [p1 EXCEPT !.x = 0] ELSE p1
        p3 == IF p2.y < 0 THEN [p2 EXCEPT !.y = GAME_HEIGHT - 1] ELSE p2
        p4 == IF p3.y > GAME_HEIGHT THEN [p3 EXCEPT !.y = 0] ELSE p3
    IN  p4

\* Pos::move_dir: step, then the four wrap tests in the order of the code.
MoveDir(p, d) ==
    LET p0 == CASE d = "Right" -> [p EXCEPT !.x = @ + 1]
                [] d = "Up"    -> [p EXCEPT !.y = @ - 1]
                [] d = "Left"  -> [p EXCEPT !.x = @ - 1]
                [] d = "Down"  -> [p EXCEPT !.y = @ + 1]
        p1 == IF p0.x < 0 THEN [p0 EXCEPT !.x = GAME_WIDTH - 1] ELSE p0
        p2 == IF p1.x > GAME_WIDTH - 1 THEN [p1 EXCEPT !.x = 0] ELSE p1
        p3 == IF p2.y < 0 THEN [p2 EXCEPT !.y = GAME_HEIGHT - 1] ELSE p2
        p4 == IF p3.y > GAME_HEIGHT - 1 THEN [p3 EXCEPT !.y = 0] ELSE p3
    IN  p4

\* Pos::move_to
MoveTo(target) == [x |-> target.x, y |-> target.y]

NumFoods == BagCardinality(foods)

SegPositions == {segments[i].pos : i \in 1..Len(segments)}

\* StuffOf without the head's cell: what C12_SpawnOnFreeCell must tell from
\* StuffOf.
StuffWithoutHead(segs) ==
    {segs[i].pos : i \in 1..Len(segs)} \cup BagToSet(foods)

\* StuffOf without the foods' cells: what C15_OneFoodPerCell must tell from
\* StuffOf.
StuffWithoutFoods(segs) ==
    {head} \cup {segs[i].pos : i \in 1..Len(segs)}

\* StuffOf without the segments' cells: what C18_NoFoodOnSegment must tell
\* from StuffOf.
StuffWithoutSegments(segs) ==
    {head} \cup BagToSet(foods)

\* Query<&Pos>: the position of every entity that has one, the segments
\* being segs.
StuffOf(segs) ==
    {head} \cup {segs[i].pos : i \in 1..Len(segs)} \cup BagToSet(foods)

Stuff == StuffOf(segments)

(* ------------------------------- Init ---------------------------------- *)
\* The world after the Startup system init and insert_resource.
World ==
    /\ head = [x |-> 0, y |-> 0]
    /\ dir = "Right"
    /\ next_dir = "Right"
    /\ lenght = 0
    /\ segments = <<>>
    /\ foods = EmptyBag
    /\ tickFinished = FALSE
    /\ foodFinished = FALSE
    /\ commands = <<>>
    /\ stage = "First"
    /\ ran = {}
    /\ intent = "None"
    /\ panicked = FALSE
    /\ hist = <<>>
    /\ foodTimerTicked = FALSE

\* A run on the small grid in which any keys are pressed; the food timer is
\* restrained by MaxLen and MaxFoods.
Init ==
    /\ World
    /\ mode = "play"

\* A run on the small grid in which no key is ever pressed: the snake keeps
\* to its row, where it dies by the time it is as long as the row, and the
\* program's own cap bounds the foods, so that the food timer is left free.
InitIdle ==
    /\ World
    /\ mode = "idle"

\* A run on the wide grid in which any keys are pressed; the food timer is
\* restrained by MaxLen and MaxFoods.
InitWide ==
    /\ World
    /\ mode = "wide"

(* ------------------------------ First ---------------------------------- *)
\* The direction the pressed keys select, or "None".
KeyDir(up, down, left, right) ==
    CASE up /\ ~down                       -> "Up"
      [] ~up /\ down                       -> "Down"
      [] (up = down) /\ left /\ ~right     -> "Left"
      [] (up = down) /\ ~left /\ right     -> "Right"
      [] OTHER                             -> "None"

\* Accepted testing against the pending direction instead of the current
\* one: what C7_NoReversal must tell from Accepted.
AcceptedAgainstPending(d) == d # Rev(next_dir)

\* Accepted latching the first intent after a tick only: what
\* C8_LastIntentLatched must tell from Accepted.
AcceptedOnlyFirst(d) == d # Rev(dir) /\ next_dir = dir

\* Accepted letting a reversal through: what C19_ShortSnakeSurvives must tell
\* from Accepted.
AcceptedAlways(d) == TRUE

\* The test of input on a selected direction: anything but a reversal.
Accepted(d) == d # Rev(dir)

\* Input::pressed of a key in this run.
Pressed == IF mode = "idle" THEN {FALSE} ELSE BOOLEAN

\* fn input
Input ==
    /\ stage = "First"
    /\ ~panicked
    /\ \E up, down, left, right \in Pressed :
         intent' = KeyDir(up, down, left, right)
    /\ next_dir' = IF intent' # "None" /\ Accepted(intent') THEN intent'
                                                            ELSE next_dir
    /\ stage' = "PreUpdate"
    /\ ran' = {}
    /\ UNCHANGED <<head, dir, lenght, segments, foods, tickFinished,
                   foodFinished, commands, panicked, hist, foodTimerTicked,
                   mode>>

(* ----------------------------- PreUpdate ------------------------------- *)
\* fn tick: TickTimer.0.tick(time.delta()).  Whether the interval elapsed in
\* this call depends on the frame time only, which the model leaves open.
Tick ==
    /\ stage = "PreUpdate"
    /\ "tick" \notin ran
    /\ ~panicked
    /\ tickFinished' \in BOOLEAN
    /\ ran' = ran \cup {"tick"}
    /\ intent' = "None"
    /\ UNCHANGED <<head, dir, next_dir, lenght, segments, foods, foodFinished,
                   commands, stage, panicked, hist, foodTimerTicked, mode>>

\* StepSegment jumping to the cell the head moves to in this tick, as if
\* the head had moved first: what C2_TickOrder must tell from StepSegment.
StepSegmentToMovedHead(seg) ==
    IF seg.move_countdown > 0
    THEN [seg EXCEPT !.move_countdown = @ - 1]
    ELSE [pos |-> MoveDir(head, next_dir), move_countdown |-> lenght - 1]

\* ResetCountdown without the - 1: what C16_Countdowns must tell from
\* ResetCountdown.
ResetCountdownFull(len) == len

\* The countdown a segment gets when it jumps to the head's cell.
ResetCountdown(len) == len - 1

\* The first loop of movement, for one segment.
StepSegment(seg) ==
    IF seg.move_countdown > 0
    THEN [seg EXCEPT !.move_countdown = @ - 1]
    ELSE [pos |-> MoveTo(head), move_countdown |-> ResetCountdown(lenght)]

\* Dead testing the cell the head leaves instead of the one it moves to:
\* what C5_KillIffCollision must tell from Dead.
DeadAtOldHead(newHead, segs) ==
    \E i \in 1..Len(segs) : head = segs[i].pos

\* The death test of movement: the moved head against the moved segments.
Dead(newHead, segs) ==
    \E i \in 1..Len(segs) : newHead = segs[i].pos

\* DespawnAll sparing the oldest segment: what C1_LengthIsSegmentCount must
\* tell from DespawnAll.
DespawnAllButFirst(segs) ==
    [i \in 1..(Len(segs) - 1) |-> [op |-> "despawn_segment", id |-> i + 1]]

\* DespawnAll despawning nothing: what C17_NoUnderflow must tell from
\* DespawnAll.
DespawnNone(segs) == <<>>

\* One despawn command for each segment.
DespawnAll(segs) ==
    [i \in 1..Len(segs) |-> [op |-> "despawn_segment", id |-> i]]

\* MovedSnake starting a dead snake afresh (start cell, heading Right): what
\* C6_DeathKeepsHeadAndDirection must tell from MovedSnake.
MovedSnakeRespawn(newHead, segs) ==
    LET dead == Dead(newHead, segs) IN
    [head     |-> IF dead THEN [x |-> 0, y |-> 0] ELSE newHead,
     dir      |-> IF dead THEN "Right" ELSE next_dir,
     next_dir |-> IF dead THEN "Right" ELSE next_dir,
     lenght   |-> IF dead THEN 0 ELSE lenght,
     commands |-> IF dead THEN commands \o DespawnAll(segs) ELSE commands]

\* The snake after the second loop of movement: the head has moved, the
\* direction is committed, and a dead snake is reset.
MovedSnake(newHead, segs) ==
    LET dead == Dead(newHead, segs) IN
    [head     |-> newHead,
     dir      |-> next_dir,
     next_dir |-> next_dir,
     lenght   |-> IF dead THEN 0 ELSE lenght,
     commands |-> IF dead THEN commands \o DespawnAll(segs) ELSE commands]

\* lenght - 1 on a u64 with lenght = 0.
Underflows ==
    \E i \in 1..Len(segments) : segments[i].move_countdown = 0 /\ lenght = 0

\* fn movement
Movement ==
    /\ stage = "PreUpdate"
    /\ "movement" \notin ran
    /\ ~panicked
    /\ ran' = ran \cup {"movement"}
    /\ IF ~tickFinished
       THEN UNCHANGED <<head, dir, next_dir, lenght, segments, commands,
                        panicked, hist>>
       ELSE IF Underflows
            THEN /\ panicked' = TRUE
                 /\ UNCHANGED <<head, dir, next_dir, lenght, segments,
                                commands, hist>>
            ELSE LET segs  == [i \in 1..Len(segments) |->
                                 StepSegment(segments[i])]
                     snake == MovedSnake(MoveDir(head, next_dir), segs)
                 IN  /\ segments' = segs
                     /\ head' = snake.head
                     /\ dir' = snake.dir
                     /\ next_dir' = snake.next_dir
                     /\ lenght' = snake.lenght
                     /\ commands' = snake.commands
                     /\ hist' = SubSeq(<<head>> \o hist, 1,
                                       IF snake.lenght <= Len(hist)
                                       THEN snake.lenght ELSE Len(hist) + 1)
                     /\ UNCHANGED panicked
    /\ intent' = "None"
    /\ UNCHANGED <<foods, tickFinished, foodFinished, stage, foodTimerTicked,
                   mode>>

(* ------------------------------ Update --------------------------------- *)
\* Timer::tick(delta) of the food timer: the interval may or may not elapse
\* in this call.  With keys pressed it is not let to elapse once the length
\* that the snake and the n foods to come add up to has reached MaxLen, nor
\* while MaxFoods foods are live.
FoodTimerTick(n) ==
    IF mode = "idle" \/ (lenght + n < MaxLen /\ n < MaxFoods)
    THEN BOOLEAN
    ELSE {FALSE}

\* The draws of Pos::random in one run of spawn_food: the model takes the
\* sequences that keep to one cell, from the first draw on or after as many
\* draws of the head's cell as leave one attempt.
Draws ==
    {[i \in 1..SPAWN_ATTEMPTS |-> IF i <= k THEN head ELSE p] :
        k \in {0, SPAWN_ATTEMPTS - 1}, p \in Cells}

NoCell == [x |-> -1, y |-> -1]

RECURSIVE FirstFree(_, _, _)
\* The loop over the attempts from attempt i on: the first draw that is on
\* no cell of stuff, or NoCell.
FirstFree(draws, stuff, i) ==
    IF i > SPAWN_ATTEMPTS THEN NoCell
    ELSE IF draws[i] \in stuff THEN FirstFree(draws, stuff, i + 1)
         ELSE draws[i]

\* BelowCap letting a spawn through at the cap: what C13_FoodCap must tell
\* from BelowCap.
BelowCapInclusive(n) == n <= FOOD_MAX_COUNT

\* food.iter().len() < FOOD_MAX_COUNT
BelowCap(n) == n < FOOD_MAX_COUNT

\* SpawnResult counting the foods without those whose despawn is queued, as
\* if the despawns of eat_food took effect at once: what C20_UpdateCommutes
\* must tell from SpawnResult.
SpawnResultSeeingDespawns(finished, n, stuff, cmds, draws, elapsed) ==
    LET gone == Cardinality({i \in 1..Len(cmds) : cmds[i].op = "despawn_food"})
    IN
    IF finished /\ BelowCap(n - gone)
    THEN LET pos == FirstFree(draws, stuff, 1) IN
         IF pos # NoCell
         THEN [cmds     |-> Append(cmds, [op |-> "spawn_food", pos |-> pos]),
               finished |-> elapsed,
               ticked   |-> TRUE]
         ELSE [cmds |-> cmds, finished |-> finished, ticked |-> FALSE]
    ELSE [cmds |-> cmds, finished |-> elapsed, ticked |-> TRUE]

\* The body of spawn_food for a timer that reads finished, n foods and the
\* occupied cells stuff, on the command queue cmds, with the draws draws
\* and elapsed telling whether a tick of the timer finds its interval
\* elapsed: the queue, the timer's reading and whether it was ticked.
SpawnResult(finished, n, stuff, cmds, draws, elapsed) ==
    IF finished /\ BelowCap(n)
    THEN LET pos == FirstFree(draws, stuff, 1) IN
         IF pos # NoCell
         THEN [cmds     |-> Append(cmds, [op |-> "spawn_food", pos |-> pos]),
               finished |-> elapsed,
               ticked   |-> TRUE]
         ELSE [cmds |-> cmds, finished |-> finished, ticked |-> FALSE]
    ELSE [cmds |-> cmds, finished |-> elapsed, ticked |-> TRUE]

\* The draws that a run of spawn_food makes: none unless it gets to the loop.
DrawsMade ==
    IF foodFinished /\ BelowCap(NumFoods) THEN Draws ELSE {<<>>}

\* fn spawn_food
SpawnFood ==
    /\ stage = "Update"
    /\ "spawn_food" \notin ran
    /\ ~panicked
    /\ ran' = ran \cup {"spawn_food"}
    /\ \E stuff \in {Stuff}, draws \in DrawsMade, elapsed \in BOOLEAN :
         \E r \in {SpawnResult(foodFinished, NumFoods, stuff, commands,
                               draws, elapsed)} :
             /\ elapsed \in FoodTimerTick(NumFoods + Len(r.cmds) - Len(commands))
             /\ commands' = r.cmds
             /\ foodFinished' = r.finished
             /\ foodTimerTicked' = r.ticked
    /\ UNCHANGED <<head, dir, next_dir, lenght, segments, foods, tickFinished,
                   stage, intent, panicked, hist, mode>>

\* NewBodyCountdown without the + 1: what C3_Trail must tell from
\* NewBodyCountdown.
NewBodyCountdownNoBias(len) == len

\* NewBodyCountdown with a bias of 2: what C11_FirstGrowth must tell from
\* NewBodyCountdown.
NewBodyCountdownPlusTwo(len) == len + 2

\* The countdown of the segment that a snake of length len grows.
NewBodyCountdown(len) == len + 1

\* BumpCountdown without the + 1: what C4_Amended must tell from
\* BumpCountdown.
BumpCountdownNone(c) == c

\* The countdown of an older segment after a growth.
BumpCountdown(c) == c + 1

\* GrownLength without the + 1: what C10_Growth must tell from GrownLength.
GrownLengthNone(len) == len

\* snake.lenght += 1
GrownLength(len) == len + 1

\* The body of eat_food's loop, run once for each of the k foods on the
\* head's cell; st = [segs, len, cmds].
RECURSIVE EatLoop(_, _)
EatLoop(k, st) ==
    IF k = 0 THEN st
    ELSE EatLoop(k - 1,
           [segs |-> [i \in 1..Len(st.segs) |->
                        [st.segs[i] EXCEPT
                           !.move_countdown = BumpCountdown(@)]],
            cmds |-> st.cmds \o
                       << [op |-> "despawn_food", pos |-> head],
                          [op |-> "spawn_body", pos |-> head,
                           move_countdown |-> NewBodyCountdown(st.len)] >>,
            len  |-> GrownLength(st.len)])

\* The body of eat_food on the segments segs, the length len and the
\* command queue cmds.
EatResult(segs, len, cmds) ==
    EatLoop(CopiesIn(head, foods), [segs |-> segs, len |-> len, cmds |-> cmds])

\* fn eat_food
EatFood ==
    /\ stage = "Update"
    /\ "eat_food" \notin ran
    /\ ~panicked
    /\ ran' = ran \cup {"eat_food"}
    /\ LET st == EatResult(segments, lenght, commands)
       IN  /\ segments' = st.segs
           /\ lenght' = st.len
           /\ commands' = st.cmds
    /\ UNCHANGED <<head, dir, next_dir, foods, tickFinished, foodFinished,
                   stage, intent, panicked, hist, foodTimerTicked, mode>>

(* ------------------------- deferred commands --------------------------- *)
\* The indices of the segments whose despawn is queued.
Despawned(cmds) ==
    {cmds[i].id : i \in {j \in 1..Len(cmds) : cmds[j].op = "despawn_segment"}}

RECURSIVE Keep(_, _, _)
\* The segments of segs, from index i on, whose despawn is not queued.
Keep(segs, cmds, i) ==
    IF i > Len(segs) THEN <<>>
    ELSE (IF i \in Despawned(cmds) THEN <<>> ELSE <<segs[i]>>)
         \o Keep(segs, cmds, i + 1)

RECURSIVE SpawnedBodies(_, _)
\* The segments that the commands from index i on spawn.
SpawnedBodies(cmds, i) ==
    IF i > Len(cmds) THEN <<>>
    ELSE (IF cmds[i].op = "spawn_body"
          THEN <<[pos |-> cmds[i].pos,
                  move_countdown |-> cmds[i].move_countdown]>>
          ELSE <<>>) \o SpawnedBodies(cmds, i + 1)

RECURSIVE FoodsOf(_, _, _)
\* The bag of the positions of the commands of kind op, from index i on.
FoodsOf(cmds, op, i) ==
    IF i > Len(cmds) THEN EmptyBag
    ELSE (IF cmds[i].op = op THEN SetToBag({cmds[i].pos}) ELSE EmptyBag)
         (+) FoodsOf(cmds, op, i + 1)

\* The world's segments and foods once the queued commands are applied.
SegmentsAfter(segs, cmds) == Keep(segs, cmds, 1) \o SpawnedBodies(cmds, 1)

FoodsAfter(fs, cmds) ==
    (fs (-) FoodsOf(cmds, "despawn_food", 1)) (+) FoodsOf(cmds, "spawn_food", 1)

\* The end of a stage: the queued commands take effect.
ApplyDeferred ==
    /\ ~panicked
    /\ \/ stage = "PreUpdate" /\ ran = {"tick", "movement"} /\ stage' = "Update"
       \/ stage = "Update" /\ ran = {"spawn_food", "eat_food"} /\ stage' = "First"
    /\ segments' = SegmentsAfter(segments, commands)
    /\ foods' = FoodsAfter(foods, commands)
    /\ commands' = <<>>
    /\ ran' = {}
    /\ foodTimerTicked' = FALSE
    /\ UNCHANGED <<head, dir, next_dir, lenght, tickFinished, foodFinished,
                   intent, panicked, hist, mode>>

Next ==
    \/ Input
    \/ Tick
    \/ Movement
    \/ SpawnFood
    \/ EatFood
    \/ ApplyDeferred

Spec == Init /\ [][Next]_vars

SpecIdle == InitIdle /\ [][Next]_vars

SpecWide == InitWide /\ [][Next]_vars

\* The length stays within the bound of the run.
LenBound == IF mode = "idle" THEN GAME_WIDTH ELSE MaxLen

TypeOK ==
    /\ head \in Cells
    /\ dir \in Dir /\ next_dir \in Dir
    /\ intent \in Dir \cup {"None"}
    /\ lenght \in 0..LenBound
    /\ \A i \in 1..Len(segments) :
         segments[i].pos \in Cells /\ segments[i].move_countdown \in 0..LenBound
    /\ BagToSet(foods) \subseteq Cells
    /\ ~panicked

(* ======================================================================= *)
(*                          Properties of the game                         *)
(* ======================================================================= *)

(* --------------------------- kinds of steps ---------------------------- *)
\* The step runs the system input.
InputRuns == stage = "First" /\ stage' = "PreUpdate"

\* The step runs the system movement with the tick timer just finished:
\* one movement tick.
TickStep ==
    /\ stage = "PreUpdate" /\ "movement" \notin ran /\ "movement" \in ran'
    /\ tickFinished
    /\ ~panicked'

\* The step runs the system eat_food.
EatRuns == stage = "Update" /\ "eat_food" \notin ran /\ "eat_food" \in ran'

\* The step applies the commands queued in PreUpdate / in Update.
PreUpdateEnds == stage = "PreUpdate" /\ stage' = "Update"
UpdateEnds == stage = "Update" /\ stage' = "First"

\* The cell one step from p in direction d on the wrapping grid.
Ahead(p, d) ==
    CASE d = "Right" -> [x |-> (p.x + 1) % GAME_WIDTH, y |-> p.y]
      [] d = "Left"  -> [x |-> (p.x + GAME_WIDTH - 1) % GAME_WIDTH, y |-> p.y]
      [] d = "Down"  -> [x |-> p.x, y |-> (p.y + 1) % GAME_HEIGHT]
      [] d = "Up"    -> [x |-> p.x, y |-> (p.y + GAME_HEIGHT - 1) % GAME_HEIGHT]

\* The number of commands of kind op in cmds.
Count(cmds, op) == Cardinality({i \in 1..Len(cmds) : cmds[i].op = op})

\* No two segments on one cell.
SegmentsApart ==
    \A i, j \in 1..Len(segments) :
        i # j => segments[i].pos # segments[j].pos

(* -------------------------------- C1 ----------------------------------- *)
\* C1: in every reachable state the snake's lenght equals the number of
\* live segments once the commands queued by the running stage (the spawn of
\* a grown segment, the despawns of a death) are applied; in particular
\* lenght = number of segments whenever no command is queued, before and
\* after each growth and after a death reset.
C1_LengthIsSegmentCount ==
    lenght = Len(SegmentsAfter(segments, commands))

\* A frame has ended in which the snake grew to 2: the new segment is live.
C1_Witness ==
    /\ stage = "First"
    /\ commands = <<>>
    /\ lenght = 2
    /\ Len(segments) = 2
    /\ segments[2].pos = head

(* -------------------------------- C2 ----------------------------------- *)
\* C2: one movement tick decrements the countdown of every segment whose
\* countdown is > 0 and leaves it where it is, moves every segment whose
\* countdown is 0 to the cell the head has before it moves in this tick and
\* sets its countdown to lenght - 1, and moves the head one cell in the
\* committed direction.
C2_TickOrder ==
    [][TickStep =>
        /\ Len(segments') = Len(segments)
        /\ \A i \in 1..Len(segments) :
             IF segments[i].move_countdown > 0
             THEN /\ segments'[i].pos = segments[i].pos
                  /\ segments'[i].move_countdown = segments[i].move_countdown - 1
             ELSE /\ segments'[i].pos = head
                  /\ segments'[i].move_countdown = lenght - 1
        /\ dir' = next_dir
        /\ head' = Ahead(head, next_dir)]_vars

\* After a tick of a snake of length 2: the older segment has jumped to the
\* cell the head left, the younger one has only counted down.
C2_Witness ==
    /\ stage = "PreUpdate" /\ "movement" \in ran
    /\ lenght = 2 /\ Len(segments) = 2 /\ Len(hist) = 2
    /\ segments[1].pos = hist[1] /\ segments[1].move_countdown = 1
    /\ segments[2].pos = hist[2] /\ segments[2].move_countdown = 0
    /\ head = Ahead(hist[1], dir)

(* -------------------------------- C3 ----------------------------------- *)
\* C3: after every tick in which the snake did not die, a snake of length
\* n >= 1 has its n segments on exactly the n cells the head occupied at
\* the end of the previous n ticks, one segment per cell (the segment with
\* countdown c on the cell of n - c ticks ago).
C3_Trail ==
    [][TickStep /\ lenght' >= 1 =>
        /\ Len(hist') = lenght'
        /\ Len(segments') = lenght'
        /\ {segments'[i].pos : i \in 1..Len(segments')}
             = {hist'[k] : k \in 1..Len(hist')}
        /\ Cardinality({hist'[k] : k \in 1..Len(hist')}) = lenght'
        /\ \A i \in 1..Len(segments') :
             /\ segments'[i].move_countdown \in 0..(lenght' - 1)
             /\ segments'[i].pos = hist'[lenght' - segments'[i].move_countdown]]_vars

\* After a tick of a snake of length 3 that turned a corner.
C3_Witness ==
    /\ stage = "PreUpdate" /\ "movement" \in ran
    /\ commands = <<>>
    /\ lenght = 3 /\ Len(segments) = 3 /\ Len(hist) = 3
    /\ {segments[i].pos : i \in 1..3} = {hist[k] : k \in 1..3}
    /\ hist[1].x # hist[3].x /\ hist[1].y # hist[3].y

(* -------------------------------- C4 ----------------------------------- *)
\* C4 as claimed: when a frame has ended (the growth of its tick included)
\* no two segments share a cell and no segment is on the head's cell.
C4_Original ==
    stage = "First" =>
        /\ SegmentsApart
        /\ \A i \in 1..Len(segments) : segments[i].pos # head

\* C4: whenever no command is queued, no two segments share a cell, and a
\* segment is on the head's cell only if it is the segment grown since the
\* head last moved (its countdown is still lenght).
C4_Amended ==
    commands = <<>> =>
        /\ SegmentsApart
        /\ \A i \in 1..Len(segments) :
             segments[i].pos = head => segments[i].move_countdown = lenght

\* A frame has ended in which a snake of length 2 grew a third segment.
C4_Witness ==
    /\ stage = "First"
    /\ commands = <<>>
    /\ Len(segments) = 3
    /\ segments[3].pos = head
    /\ segments[1].pos # head /\ segments[2].pos # head

(* -------------------------------- C5 ----------------------------------- *)
\* C5: a tick kills the snake if and only if the moved head is on the cell
\* of some segment as updated in that tick; the kill sets lenght to 0 and
\* queues the despawn of each segment exactly once, so that no segment is
\* left when PreUpdate ends; a tick without a kill leaves lenght alone and
\* queues nothing.
C5_KillIffCollision ==
    [][/\ TickStep =>
            IF \E i \in 1..Len(segments') : segments'[i].pos = head'
            THEN /\ lenght' = 0
                 /\ Len(commands') = Len(commands) + Len(segments)
                 /\ \A i \in 1..Len(segments) :
                      Cardinality({j \in 1..Len(commands') :
                                     /\ commands'[j].op = "despawn_segment"
                                     /\ commands'[j].id = i}) = 1
            ELSE /\ lenght' = lenght
                 /\ commands' = commands
       /\ PreUpdateEnds /\ commands # <<>> =>
            /\ segments' = <<>>
            /\ lenght' = 0]_vars

\* The snake has just died: the head is on a segment, the despawns are
\* queued.
C5_Witness ==
    /\ stage = "PreUpdate" /\ "movement" \in ran
    /\ lenght = 0
    /\ Len(segments) >= 2
    /\ \E i \in 1..Len(segments) : segments[i].pos = head
    /\ Count(commands, "despawn_segment") = Len(segments)

(* -------------------------------- C6 ----------------------------------- *)
\* C6: the death reset changes the segments and lenght only: in a fatal
\* tick the head ends on the cell one step ahead, the committed direction
\* is the pending one and the pending one stays, and applying the despawns
\* changes neither the head nor the directions.
C6_DeathKeepsHeadAndDirection ==
    [][/\ TickStep /\ (\E i \in 1..Len(segments') : segments'[i].pos = head') =>
            /\ head' = Ahead(head, next_dir)
            /\ dir' = next_dir
            /\ next_dir' = next_dir
       /\ PreUpdateEnds /\ commands # <<>> =>
            /\ head' = head
            /\ dir' = dir
            /\ next_dir' = next_dir]_vars

\* The snake has just died away from the start cell while not heading
\* Right: the head is where it moved to, the direction is the committed one.
C6_Witness ==
    /\ stage = "PreUpdate" /\ "movement" \in ran
    /\ lenght = 0 /\ segments # <<>>
    /\ commands # <<>>
    /\ \E i \in 1..Len(segments) : segments[i].pos = head
    /\ head # [x |-> 0, y |-> 0]
    /\ dir # "Right" /\ next_dir = dir

(* -------------------------------- C7 ----------------------------------- *)
\* C7: input never leaves the opposite of the current direction pending (an
\* intent opposite to the current direction is dropped and the pending
\* direction stays), so the direction a tick commits is never the opposite
\* of the direction that was current before the tick.
C7_NoReversal ==
    [][/\ InputRuns => next_dir' # Rev(dir)
       /\ InputRuns /\ intent' = Rev(dir) => next_dir' = next_dir
       /\ TickStep => dir' # Rev(dir)]_vars

\* input has just dropped a reversal: the keys selected the opposite of the
\* current direction and the pending direction is still the current one.
C7_Witness ==
    /\ stage = "PreUpdate" /\ ran = {}
    /\ intent = Rev(dir)
    /\ next_dir = dir

(* -------------------------------- C8 ----------------------------------- *)
\* C8 as claimed: once an intent is pending (the pending direction differs
\* from the current one, which only an intent stored since the last tick
\* brings about), a run of input before the next tick does not replace it.
C8_Original ==
    [][InputRuns /\ next_dir # dir => next_dir' = next_dir]_vars

\* C8: every run of input whose keys select a direction other than the
\* opposite of the current one stores that direction as the pending one,
\* whatever was pending; any other run of input leaves the pending
\* direction alone.  The intent a tick commits is thus the last valid,
\* non-reversing one.
C8_LastIntentLatched ==
    [][InputRuns =>
        next_dir' = IF intent' \in Dir \ {Rev(dir)} THEN intent'
                                                    ELSE next_dir]_vars

\* input has just stored a turn as the pending direction.
C8_Witness ==
    /\ stage = "PreUpdate" /\ ran = {}
    /\ intent \in Dir \ {dir, Rev(dir)}
    /\ next_dir = intent

(* -------------------------------- C9 ----------------------------------- *)
\* C9: the head is always inside the grid, it moves in ticks only, and a
\* tick moves it one cell in the committed direction: Right from the last
\* column to column 0, Left from column 0 to the last column, Up from row 0
\* to the last row, Down from the last row to row 0, and otherwise one
\* coordinate changes by exactly 1.
C9_Wrap ==
    [][/\ head' \in Cells
       /\ ~TickStep => head' = head
       /\ TickStep =>
            /\ dir' = "Right" =>
                 /\ head'.y = head.y
                 /\ head'.x = IF head.x = GAME_WIDTH - 1 THEN 0 ELSE head.x + 1
            /\ dir' = "Left" =>
                 /\ head'.y = head.y
                 /\ head'.x = IF head.x = 0 THEN GAME_WIDTH - 1 ELSE head.x - 1
            /\ dir' = "Up" =>
                 /\ head'.x = head.x
                 /\ head'.y = IF head.y = 0 THEN GAME_HEIGHT - 1 ELSE head.y - 1
            /\ dir' = "Down" =>
                 /\ head'.x = head.x
                 /\ head'.y = IF head.y = GAME_HEIGHT - 1 THEN 0 ELSE head.y + 1]_vars

\* The head has just wrapped from the last column to column 0.
C9_Witness ==
    /\ stage = "PreUpdate" /\ "movement" \in ran
    /\ dir = "Right"
    /\ head.x = 0
    /\ hist # <<>>
    /\ hist[1].x = GAME_WIDTH - 1 /\ hist[1].y = head.y

(* -------------------------------- C10 ---------------------------------- *)
\* C10: eat_food adds 1 to lenght for each food on the head's cell and
\* queues, for each, the despawn of that food and the spawn of one segment
\* on the head's cell; when Update ends the snake has that many segments
\* more, all of the new ones on the head's cell, the eaten food is gone and
\* no other food is.  lenght changes in no other way than by 1 up in
\* eat_food and to 0 in a fatal tick, and the number of segments only
\* drops by dropping to 0 with lenght = 0.
C10_Growth ==
    [][/\ EatRuns =>
            LET k    == CopiesIn(head, foods)
                new  == SubSeq(commands', Len(commands) + 1, Len(commands'))
            IN  /\ lenght' = lenght + k
                /\ k <= 1
                /\ Len(commands') = Len(commands) + 2 * k
                /\ Count(new, "spawn_body") = k
                /\ Count(new, "despawn_food") = k
                /\ \A i \in 1..Len(new) : new[i].pos = head
       /\ UpdateEnds =>
            LET k == Count(commands, "spawn_body") IN
            /\ Len(segments') = Len(segments) + k
            /\ SubSeq(segments', 1, Len(segments)) = segments
            /\ \A i \in (Len(segments) + 1)..Len(segments') :
                 segments'[i].pos = head
            /\ CopiesIn(head, foods') = CopiesIn(head, foods) - k
            /\ \A c \in Cells \ {head} : CopiesIn(c, foods') >= CopiesIn(c, foods)
       /\ lenght' # lenght =>
            \/ EatRuns /\ lenght' = lenght + 1
            \/ TickStep /\ lenght' = 0
       /\ Len(segments') < Len(segments) =>
            /\ segments' = <<>>
            /\ lenght' = 0
            /\ PreUpdateEnds]_vars

\* eat_food has just run on a snake of length 1 with a food under its head.
C10_Witness ==
    /\ stage = "Update" /\ "eat_food" \in ran
    /\ lenght = 2 /\ Len(segments) = 1
    /\ CopiesIn(head, foods) = 1
    /\ Count(commands, "spawn_body") = 1
    /\ Count(commands, "despawn_food") = 1

(* -------------------------------- C11 ---------------------------------- *)
\* C11: a snake of length 0 whose head is on a food at cell h grows to
\* length 1 by one segment at h with countdown 1; the next tick leaves that
\* segment at h with countdown 0 and moves the head one cell ahead; the tick
\* after that moves the segment to the cell the head held before that
\* tick's move and moves the head one more cell ahead.
C11_FirstGrowth ==
    [][/\ EatRuns /\ lenght = 0 /\ CopiesIn(head, foods) >= 1 =>
            /\ lenght' = 1
            /\ Count(commands', "spawn_body") = 1
            /\ \E i \in 1..Len(commands') :
                 commands'[i] = [op |-> "spawn_body", pos |-> head,
                                 move_countdown |-> 1]
       /\ UpdateEnds /\ lenght = 1 /\ segments = <<>> =>
            segments' = <<[pos |-> head, move_countdown |-> 1]>>
       /\ TickStep /\ lenght = 1
                   /\ segments = <<[pos |-> head, move_countdown |-> 1]>> =>
            /\ segments' = <<[pos |-> head, move_countdown |-> 0]>>
            /\ head' = Ahead(head, next_dir)
            /\ lenght' = 1
       /\ TickStep /\ lenght = 1 /\ Len(segments) = 1
                   /\ segments[1].move_countdown = 0 =>
            /\ segments' = <<[pos |-> head, move_countdown |-> 0]>>
            /\ head' = Ahead(head, next_dir)
            /\ lenght' = 1]_vars

\* After the second tick that follows the first growth: the one segment is
\* on the cell the head left in this tick, its countdown is 0 again, and
\* the head is a step ahead of it.
C11_Witness ==
    /\ stage = "PreUpdate" /\ "movement" \in ran
    /\ lenght = 1 /\ Len(hist) = 1
    /\ segments = <<[pos |-> hist[1], move_countdown |-> 0]>>
    /\ head = Ahead(hist[1], dir)
    /\ head = [x |-> 0, y |-> 1] /\ dir = "Down"

\* The step runs the system spawn_food.
SpawnRuns ==
    stage = "Update" /\ "spawn_food" \notin ran /\ "spawn_food" \in ran'

(* -------------------------------- C12 ---------------------------------- *)
\* C12: whenever spawn_food spawns a food, it spawns one food, on a cell of
\* the grid that is neither the head's cell nor the cell of a live segment
\* nor the cell of a food that exists when spawn_food runs.
C12_SpawnOnFreeCell ==
    [][SpawnRuns /\ commands' # commands =>
            LET new == commands'[Len(commands')] IN
            /\ commands' = Append(commands, new)
            /\ new.op = "spawn_food"
            /\ new.pos \in Cells
            /\ new.pos # head
            /\ \A i \in 1..Len(segments) : new.pos # segments[i].pos
            /\ CopiesIn(new.pos, foods) = 0]_vars

\* spawn_food has queued a food while a segment and another food are live.
C12_Witness ==
    /\ stage = "Update" /\ "spawn_food" \in ran
    /\ Count(commands, "spawn_food") = 1
    /\ Len(segments) >= 1
    /\ NumFoods >= 1

(* -------------------------------- C13 ---------------------------------- *)
\* C13: spawn_food queues no spawn when FOOD_MAX_COUNT foods are live,
\* whether or not a free cell exists, and no step leaves more than
\* FOOD_MAX_COUNT foods live.
C13_FoodCap ==
    [][/\ SpawnRuns /\ NumFoods >= FOOD_MAX_COUNT => commands' = commands
       /\ BagCardinality(foods') <= FOOD_MAX_COUNT]_vars

\* spawn_food has run with FOOD_MAX_COUNT foods live and a free cell left,
\* and has only ticked the timer.
C13_Witness ==
    /\ stage = "Update" /\ "spawn_food" \in ran
    /\ NumFoods = FOOD_MAX_COUNT
    /\ Cells \ Stuff # {}
    /\ Count(commands, "spawn_food") = 0
    /\ foodTimerTicked

(* -------------------------------- C14 ---------------------------------- *)
\* C14 as claimed: when spawn_food runs with the food timer finished and
\* fewer than FOOD_MAX_COUNT foods and spawns nothing (every draw was on an
\* occupied cell), the attempt is over for this interval: the timer has
\* been ticked, so that it reads finished on the following frame only if a
\* new interval has elapsed.
C14_RetryNextInterval ==
    [][SpawnRuns /\ foodFinished /\ NumFoods < FOOD_MAX_COUNT
                 /\ commands' = commands =>
            foodTimerTicked']_vars

(* -------------------------------- C15 ---------------------------------- *)
\* C15: in every reachable state no cell holds two foods, counting the food
\* whose spawn is queued; hence at most one food is on the head's cell and
\* eat_food grows the snake at most once in a frame, and as no food is on the
\* head's cell when a frame starts, at most once for each tick.
C15_OneFoodPerCell ==
    /\ \A c \in Cells : CopiesIn(c, FoodsAfter(foods, commands)) <= 1
    /\ \A c \in Cells : CopiesIn(c, foods) <= 1
    /\ CopiesIn(head, foods) <= 1
    /\ Count(commands, "spawn_body") <= 1
    /\ stage = "First" => CopiesIn(head, foods) = 0

\* eat_food has eaten the one food on the head's cell while other foods are
\* live.
C15_Witness ==
    /\ stage = "Update" /\ "eat_food" \in ran
    /\ NumFoods >= 2
    /\ CopiesIn(head, foods) = 1
    /\ Count(commands, "spawn_body") = 1

\* The countdowns of the segments segs.
CountdownSet(segs) == {segs[i].move_countdown : i \in 1..Len(segs)}

\* The snake has grown since the last tick: the recorded cells of the head
\* are one short of the length.
GrownSinceTick == lenght = Len(hist) + 1

(* -------------------------------- C16 ---------------------------------- *)
\* C16: after a tick that is not fatal the countdowns of the lenght segments
\* are exactly 0..lenght-1, and when a frame that grew the snake ends they
\* are exactly 1..lenght (so they are pairwise distinct and at most lenght);
\* in a tick that follows a growth no segment jumps to the head's cell, and
\* in any other tick of a snake with lenght >= 1 exactly one segment does.
C16_Countdowns ==
    [][/\ TickStep /\ lenght' >= 1 =>
            /\ Len(segments') = lenght'
            /\ CountdownSet(segments') = 0..(lenght' - 1)
       /\ UpdateEnds /\ Count(commands, "spawn_body") >= 1 =>
            /\ Len(segments') = lenght'
            /\ CountdownSet(segments') = 1..lenght'
       /\ TickStep /\ lenght >= 1 =>
            LET zero  == {i \in 1..Len(segments) :
                             segments[i].move_countdown = 0}
                jumps == {i \in 1..Len(segments) :
                             segments'[i].pos # segments[i].pos}
            IN  /\ Len(segments') = Len(segments)
                /\ jumps = zero
                /\ \A i \in jumps : segments'[i].pos = head
                /\ Cardinality(jumps) = IF GrownSinceTick THEN 0 ELSE 1]_vars

\* A snake of length 3 after a tick that followed its growth from 2: no
\* segment has jumped, the newest one still is on the cell the head left.
C16_Witness ==
    /\ stage = "PreUpdate" /\ "movement" \in ran
    /\ lenght = 3 /\ Len(segments) = 3 /\ Len(hist) = 3
    /\ CountdownSet(segments) = {0, 1, 2}
    /\ segments[3] = [pos |-> hist[1], move_countdown |-> 2]
    /\ segments[1].move_countdown = 0

(* -------------------------------- C17 ---------------------------------- *)
\* C17: lenght - 1 is never evaluated at lenght = 0: no tick has underflowed,
\* and in every state in which movement has yet to run in the frame a live
\* segment with countdown 0 comes with lenght >= 1.
C17_NoUnderflow ==
    /\ ~panicked
    /\ "movement" \notin ran /\ 0 \in CountdownSet(segments) => lenght >= 1

\* A tick is about to reset the countdown of the one segment of a snake that
\* grew from length 0.
C17_Witness ==
    /\ stage = "PreUpdate" /\ "movement" \notin ran
    /\ tickFinished
    /\ lenght = 1
    /\ CountdownSet(segments) = {0}

(* -------------------------------- C18 ---------------------------------- *)
\* C18: in every reachable state no food, live or queued to spawn, is on
\* the cell of a live segment; hence when the head is on a segment's cell
\* (a fatal tick) no food is on the head's cell for eat_food to eat in that
\* frame.
C18_NoFoodOnSegment ==
    /\ \A i \in 1..Len(segments) :
         /\ CopiesIn(segments[i].pos, foods) = 0
         /\ \A k \in 1..Len(commands) :
              commands[k].op = "spawn_food" => commands[k].pos # segments[i].pos
    /\ (\E i \in 1..Len(segments) : segments[i].pos = head) =>
         CopiesIn(head, foods) = 0

\* A fatal tick has just run while a food is live.
C18_Witness ==
    /\ stage = "PreUpdate" /\ "movement" \in ran
    /\ lenght = 0 /\ Count(commands, "despawn_segment") >= 2
    /\ \E i \in 1..Len(segments) : segments[i].pos = head
    /\ NumFoods >= 1

(* -------------------------------- C19 ---------------------------------- *)
\* C19: on a grid whose width and height are both at least 4, a tick of a
\* snake with lenght <= 3 detects no collision: it leaves the length as it
\* is, the head on no segment's cell, and queues no despawn.
C19_ShortSnakeSurvives ==
    [][TickStep /\ lenght <= 3 /\ GAME_WIDTH >= 4 /\ GAME_HEIGHT >= 4 =>
            /\ lenght' = lenght
            /\ \A i \in 1..Len(segments') : segments'[i].pos # head'
            /\ commands' = commands]_vars

\* On the wide grid a snake of length 3 has turned three times in a row: the
\* head is next to the cell of its last segment.
C19_Witness ==
    /\ GAME_WIDTH >= 4 /\ GAME_HEIGHT >= 4
    /\ stage = "PreUpdate" /\ "movement" \in ran
    /\ lenght = 3 /\ Len(segments) = 3 /\ Len(hist) = 3
    /\ {segments[i].pos : i \in 1..3} = {hist[k] : k \in 1..3}
    /\ \E d \in Dir : Ahead(head, d) = hist[3]

(* -------------------------------- C20 ---------------------------------- *)
\* C20: in every state in which the Update stage begins, for the same draws
\* and the same reading of the clock, spawn_food followed by eat_food and
\* eat_food followed by spawn_food leave the same length, the same food
\* timer, and, once the queued commands are applied, the same segments and
\* the same foods.
C20_UpdateCommutes ==
    stage = "Update" /\ ran = {} /\ ~panicked =>
        \A draws \in Draws, elapsed \in BOOLEAN :
            LET s1 == SpawnResult(foodFinished, NumFoods, StuffOf(segments),
                                  commands, draws, elapsed)
                e1 == EatResult(segments, lenght, s1.cmds)
                e2 == EatResult(segments, lenght, commands)
                s2 == SpawnResult(foodFinished, NumFoods, StuffOf(e2.segs),
                                  e2.cmds, draws, elapsed)
            IN  /\ e1.len = e2.len
                /\ s1.finished = s2.finished
                /\ SegmentsAfter(e1.segs, e1.cmds)
                     = SegmentsAfter(e2.segs, s2.cmds)
                /\ FoodsAfter(foods, e1.cmds) = FoodsAfter(foods, s2.cmds)

\* Both systems have acted in one frame: a food was eaten and a food was
\* spawned while FOOD_MAX_COUNT - 1 foods were live.
C20_Witness ==
    /\ stage = "Update" /\ ran = {"spawn_food", "eat_food"}
    /\ Count(commands, "spawn_food") = 1
    /\ Count(commands, "spawn_body") = 1
    /\ Count(commands, "despawn_food") = 1
    /\ NumFoods = FOOD_MAX_COUNT - 1

====
